---- MODULE Spec2Model ----
(***************************************************************************)
(* STMD force modifier (fix stmd) of src/src/USER-MISC/fix_stmd.cpp.      *)
(*                                                                         *)
(* Numbers.  A C++ double is modelled as an exact extended rational        *)
(* <<n, d>> in lowest terms with d >= 0; d = 0 encodes the IEEE specials   *)
(* +inf <<1,0>>, -inf <<-1,0>> and NaN <<0,0>>.  Rounding error of the     *)
(* floating-point unit is not modelled.  The learning rate f only ever     *)
(* passes through exp, log, sqrt, a scaling by 0.9 and comparisons, so a   *)
(* value of f is modelled by the record [ln |-> q] standing for exp(q).    *)
(***************************************************************************)
EXTENDS Integers, Sequences, FiniteSets, TLC

\* ------------------------------------------------------------------------
\* extended rational arithmetic
\* ------------------------------------------------------------------------

AbsI(n) == IF n < 0 THEN -n ELSE n

SignI(n) == IF n < 0 THEN -1 ELSE IF n > 0 THEN 1 ELSE 0

RECURSIVE Gcd(_, _)
Gcd(a, b) == IF b = 0 THEN a ELSE Gcd(b, a % b)

Norm(n, d) ==
  IF d = 0 THEN <<SignI(n), 0>>
  ELSE LET g == Gcd(AbsI(n), AbsI(d))
           s == IF d < 0 THEN -1 ELSE 1
       IN  <<s * (n \div g), s * (d \div g)>>

Q(n, d) == Norm(n, d)

QInt(n) == <<n, 1>>

IsFinite(a) == a[2] # 0

IsNaN(a) == a[2] = 0 /\ a[1] = 0

QNeg(a) == <<-a[1], a[2]>>

QAdd(a, b) ==
  IF a[2] = 0 /\ b[2] = 0
  THEN (IF a = b THEN a ELSE <<0, 0>>)
  ELSE IF a[2] = 0 THEN a
  ELSE IF b[2] = 0 THEN b
  ELSE LET g == Gcd(a[2], b[2])
       IN  Norm(a[1] * (b[2] \div g) + b[1] * (a[2] \div g), (a[2] \div g) * b[2])

QSub(a, b) == QAdd(a, QNeg(b))

\* cross-cancelled product, so that intermediate values stay small
QMul(a, b) ==
  IF a[2] = 0 \/ b[2] = 0
  THEN <<SignI(a[1]) * SignI(b[1]), 0>>
  ELSE IF a[1] = 0 \/ b[1] = 0 THEN <<0, 1>>
  ELSE LET g1 == Gcd(AbsI(a[1]), b[2])
           g2 == Gcd(AbsI(b[1]), a[2])
       IN  Norm((a[1] \div g1) * (b[1] \div g2), (a[2] \div g2) * (b[2] \div g1))

\* 1/x ; 1/0 = +inf, 1/inf = 0, 1/NaN = NaN
QRecip(a) ==
  IF a[2] = 0 THEN (IF a[1] = 0 THEN <<0, 0>> ELSE <<0, 1>>)
  ELSE IF a[1] < 0 THEN <<-a[2], -a[1]>>
  ELSE <<a[2], a[1]>>

QDiv(a, b) ==
  IF IsFinite(a) /\ a[1] = 0 /\ IsFinite(b) /\ b[1] = 0 THEN <<0, 0>>
  ELSE IF ~IsFinite(a) /\ ~IsFinite(b) THEN <<0, 0>>
  ELSE QMul(a, QRecip(b))

\* IEEE comparisons: every comparison with NaN is false
QLt(a, b) ==
  IF IsNaN(a) \/ IsNaN(b) THEN FALSE
  ELSE IF a[2] = 0 /\ b[2] = 0 THEN a[1] < b[1]
  ELSE IF a[2] = 0 THEN a[1] < 0
  ELSE IF b[2] = 0 THEN b[1] > 0
  ELSE a[1] * b[2] < b[1] * a[2]

QLe(a, b) ==
  IF IsNaN(a) \/ IsNaN(b) THEN FALSE
  ELSE a = b \/ QLt(a, b)

QEq(a, b) == ~IsNaN(a) /\ ~IsNaN(b) /\ a = b

QAbs(a) == <<AbsI(a[1]), a[2]>>

\* C round(): nearest integer, halfway cases away from zero (finite argument)
Round(a) ==
  IF a[1] >= 0 THEN (2 * a[1] + a[2]) \div (2 * a[2])
  ELSE -((2 * (-a[1]) + a[2]) \div (2 * a[2]))

\* ------------------------------------------------------------------------
\* values of f: [ln |-> q] stands for exp(q)
\* ------------------------------------------------------------------------

Exp(x) == [ln |-> x]

Log(v) == v.ln

Sqrt(v) == [ln |-> QDiv(v.ln, QInt(2))]

FLe(a, b) == QLe(a.ln, b.ln)

FLt(a, b) == QLt(a.ln, b.ln)

\* ------------------------------------------------------------------------
\* configuration: the arguments of the fix command (FixStmd::FixStmd)
\* ------------------------------------------------------------------------

Cfg(ff, fi, d3, tl, th, st, e0, e1, b, t1, t2) ==
  [f_flag |-> ff, initf |-> fi, dFval3 |-> d3, TL |-> tl, TH |-> th, ST |-> st,
   Emin |-> e0, Emax |-> e1, bin |-> b, TSC1 |-> t1, TSC2 |-> t2]

\* the constructor's checks: f_flag is one of the five styles, initf <= 1,
\* dFval3 >= 0.00001 (restart option and argument count are not modelled here)
Accepted(c) ==
  /\ c.f_flag \in 0..4
  /\ ~QLt(QInt(1), c.initf)
  /\ ~QLt(c.dFval3, Q(1, 100000))

\* what the unqualified abs() of HCHK resolves to in a build: the file
\* includes only stdlib.h, so the argument is either taken as a double or
\* converted to int first; the conversion of NaN to int has no defined
\* result, it may end at or below the tolerance ("int") or above it
\* ("int_big")
AbsKinds == {"double", "int", "int_big"}

\* a fix command together with the build it runs in
Built(c, k) == [x \in DOMAIN c \cup {"abs"} |-> IF x = "abs" THEN k ELSE c[x]]

VARIABLES
  cfg,        \* the arguments the fix was constructed with
  phase,      \* host integrator: "init" before setup(), "run" after it
  ntimestep,  \* update->ntimestep
  fatal,      \* "none", or the error that ended the run
  STG, f, df, Y2, Hist, Htot, PROH,
  CountH, CountPH, Count, totCi, SWf, SWfold, SWchk,
  T, Gamma, curbin, T1, T2, CTmin, CTmax,
  potE,       \* post_force: the potential energy of the latest call
  STGin,      \* MAIN: the stage the latest call started in ("STMD DEBUG: STAGE")
  orest,      \* the file oREST.<walker>.d on disk: the values it holds, in order
  stdio,      \* what was printed to fp_orest and is still in its buffer
  pc,         \* the process: where the host is between the calls of the fix
  mpi,        \* the walker's communicator: the engine of a rank other than 0,
              \* where each rank is in post_force, and the broadcast in flight
  rxc         \* the tempering coordinator: EX_flag and its latest attempt

\* the file, the process and the communicator around the engine
hostVars == <<orest, stdio, pc, mpi, rxc>>

vars == <<cfg, phase, ntimestep, fatal, STG, f, df, Y2, Hist, Htot, PROH,
          CountH, CountPH, Count, totCi, SWf, SWfold, SWchk,
          T, Gamma, curbin, T1, T2, CTmin, CTmax, potE, STGin,
          orest, stdio, pc, mpi, rxc>>

f_flag == cfg.f_flag
initf == cfg.initf
dFval3 == cfg.dFval3
bin == cfg.bin
Emin == cfg.Emin
Emax == cfg.Emax
TSC1 == cfg.TSC1
TSC2 == cfg.TSC2
ST == cfg.ST

dFval4 == QDiv(dFval3, QInt(10))

\* init(): pfinFval = exp(dFval3 * 2 * bin), finFval = exp(dFval4 * 2 * bin)
pfinFval == Exp(QMul(QMul(dFval3, QInt(2)), bin))

finFval == Exp(QMul(QMul(dFval4, QInt(2)), bin))

BinMinOf(c) == Round(QDiv(c.Emin, c.bin))

BinMaxOf(c) == Round(QDiv(c.Emax, c.bin))

NOf(c) == BinMaxOf(c) - BinMinOf(c) + 1

BinMin == BinMinOf(cfg)

BinMax == BinMaxOf(cfg)

N == NOf(cfg)

\* df = log(f) * 0.5 / bin
DfOf(fv) == QDiv(QMul(Log(fv), Q(1, 2)), bin)

\* ------------------------------------------------------------------------
\* the translated stmd.f subroutines
\* ------------------------------------------------------------------------

\* the scan with "<" for "<=": nkeepmin stays at the first minimum
RECURSIVE digScan_Strict(_, _, _, _)
digScan_Strict(Y, i, keepmin, nkeepmin) ==
  IF i >= N THEN <<keepmin, nkeepmin>>
  ELSE IF QLt(Y[i], keepmin) THEN digScan_Strict(Y, i + 1, Y[i], i)
  ELSE digScan_Strict(Y, i + 1, keepmin, nkeepmin)

\* dig(): the scan for the minimum; "<=" moves nkeepmin to every later bin
\* that is not above the running minimum
RECURSIVE digScan(_, _, _, _)
digScan(Y, i, keepmin, nkeepmin) ==
  IF i >= N THEN <<keepmin, nkeepmin>>
  ELSE IF QLe(Y[i], keepmin) THEN digScan(Y, i + 1, Y[i], i)
  ELSE digScan(Y, i + 1, keepmin, nkeepmin)

\* a fill that lowers each bin below nkeepmin halfway to keepmin
digFill_Halfway(Y, r) ==
  [i \in DOMAIN Y |-> IF i < r[2] THEN QDiv(QAdd(Y[i], r[1]), QInt(2)) ELSE Y[i]]

\* dig(): for (i = 0; i < nkeepmin; i++) Y2[i] = keepmin
digFill(Y, r) == [i \in DOMAIN Y |-> IF i < r[2] THEN r[1] ELSE Y[i]]

\* a dig() that scans and fills nothing
dig_ScanOnly(Y) == digFill(Y, <<digScan(Y, 0, Y[0], 0)[1], 0>>)

dig(Y) == digFill(Y, digScan(Y, 0, Y[0], 0))

\* Yval(): curbin = round(potE / bin) - BinMin + 1
YvalIndex(pe) == Round(QDiv(pe, bin)) - BinMin + 1

\* Yval(): the index test that ends the run
YvalOutOfRange(i) == (i < 1) \/ (i > N - 1)

\* if (Y2[i+1] > T2) Y2[i+1] = T2
ClampUp(v, t2) == IF QLt(t2, v) THEN t2 ELSE v

\* if (Y2[i-1] < T1) Y2[i-1] = T1
ClampDown(v, t1) == IF QLt(v, t1) THEN t1 ELSE v

\* Y2[i+1] = Y2[i+1] / (1.0 - df * Y2[i+1]), then the clamp
YvalUp(y, d, t2) == ClampUp(QDiv(y, QSub(QInt(1), QMul(d, y))), t2)

\* Y2[i-1] = Y2[i-1] / (1.0 + df * Y2[i-1]), then the clamp
YvalDown(y, d, t1) == ClampDown(QDiv(y, QAdd(QInt(1), QMul(d, y))), t1)

\* Y2[k] as the code reads it: bin k of the table, or, for k = N, the
\* memory cell behind the table, which holds `past`
Yat(Y, k, past) == IF k \in DOMAIN Y THEN Y[k] ELSE past

\* Yval(): the table after the update of the two neighbours of bin i; the
\* write to Y2[i+1] with i = N-1 falls behind the table and is not in it
YvalTable(Y, i, d, t1, t2) ==
  [k \in DOMAIN Y |->
     IF k = i - 1 THEN YvalDown(Y[k], d, t1)
     ELSE IF k = i + 1 THEN YvalUp(Y[k], d, t2)
     ELSE Y[k]]

\* GammaE(): e = potE - round(potE / bin) * bin
GammaEe(pe) == QSub(pe, QMul(QInt(Round(QDiv(pe, bin))), bin))

\* GammaE(): T = Y2[i] + lam * e with the slope lam towards the neighbour
GammaEInterp(y, ynb, e, up) ==
  QAdd(y, QMul(QDiv(IF up THEN QSub(ynb, y) ELSE QSub(y, ynb), bin), e))

\* GammaE(): the interpolated temperature T for the offset e
GammaETe(Y, e, i, past) ==
  IF QLt(QInt(0), e) THEN GammaEInterp(Y[i], Yat(Y, i + 1, past), e, TRUE)
  ELSE IF QLt(e, QInt(0)) THEN GammaEInterp(Y[i], Y[i - 1], e, FALSE)
  ELSE Y[i]

GammaET(Y, pe, i, past) == GammaETe(Y, GammaEe(pe), i, past)

AddedEHis(H, i) == [H EXCEPT ![i] = H[i] + 1]

ResetPH(H) == [i \in DOMAIN H |-> 0]

\* TCHK(): if (Y2[0] == T1) STG = 2
TCHK(s) == IF QEq(s.Y2[0], T1) THEN [s EXCEPT !.STG = 2] ELSE s

HCKtol == Q(1, 5)

RECURSIVE SumOver(_, _)
SumOver(H, S) ==
  IF S = {} THEN 0
  ELSE LET i == CHOOSE x \in S : TRUE IN H[i] + SumOver(H, S \ {i})

\* HCHK(): the bins whose temperature is strictly inside (CTmin, CTmax)
HCHKbins(s) == {i \in DOMAIN s.Y2 : QLt(CTmin, s.Y2[i]) /\ QLt(s.Y2[i], CTmax)}

\* conversion of a finite double to int: towards zero
Trunc(a) == SignI(a[1]) * (AbsI(a[1]) \div a[2])

\* abs(int) applied to a double
HCHKabsInt(x) ==
  IF IsFinite(x) THEN QInt(AbsI(Trunc(x)))
  ELSE IF cfg.abs = "int_big" THEN <<1, 0>>
  ELSE QInt(0)

\* double(Hist[i] - aveH) / aveH
HCHKdev(h, aveH) == QDiv(QSub(QInt(h), aveH), aveH)

\* HCHK(): eval = abs(double(Hist[i] - aveH) / aveH)
HCHKeval(h, aveH) ==
  IF cfg.abs = "double" THEN QAbs(HCHKdev(h, aveH))
  ELSE HCHKabsInt(HCHKdev(h, aveH))

\* HCHK(): ichk, the number of qualifying bins off the average by more
\* than HCKtol
HCHKichk(H, B, aveH) ==
  Cardinality({i \in B : QLt(HCKtol, HCHKeval(H[i], aveH))})

\* HCHK() on the qualifying bins B
HCHKon(s, B) ==
  IF B = {} THEN [s EXCEPT !.SWfold = s.SWf]
  ELSE IF HCHKichk(s.Hist, B, QDiv(QInt(SumOver(s.Hist, B)), QInt(Cardinality(B)))) < 1
  THEN [s EXCEPT !.SWfold = s.SWf, !.SWf = s.SWf + 1]
  ELSE [s EXCEPT !.SWfold = s.SWf]

HCHK(s) == HCHKon(s, HCHKbins(s))

\* ------------------------------------------------------------------------
\* MAIN(istep, potE)
\* ------------------------------------------------------------------------

\* rational stand-ins for the two irrational constants the constant_f
\* scheme needs in the ln-representation of f: ln(0.9) and ln(1.2)
Ln0p9 == Q(-2, 19)

Ln1p2 == Q(2, 11)

\* f = f - (reduce_val * f) with reduce_val = 0.1
FReduceConst(fv) == [ln |-> QAdd(fv.ln, Ln0p9)]

\* f > (1 + (2 * reduce_val))
FAboveConst(fv) == QLt(Ln1p2, fv.ln)

\* the object's fields as one record, so that the blocks of MAIN can be
\* applied one after the other as the code runs them
Cur ==
  [STG |-> STG, f |-> f, df |-> df, Y2 |-> Y2, Hist |-> Hist, Htot |-> Htot,
   PROH |-> PROH, CountH |-> CountH, CountPH |-> CountPH, Count |-> Count,
   totCi |-> totCi, SWf |-> SWf, SWfold |-> SWfold, SWchk |-> SWchk,
   T |-> T, Gamma |-> Gamma, curbin |-> curbin, fatal |-> fatal]

\* the histogram reset taking the cumulative histogram along
ResetWindow_Cumulative(s) ==
  [s EXCEPT !.Hist = ResetPH(s.Hist), !.Htot = ResetPH(s.Htot), !.CountH = 0]

\* "Histogram reset": ResetPH(); CountH = 0;
ResetWindow(s) == [s EXCEPT !.Hist = ResetPH(s.Hist), !.CountH = 0]

\* Count = istep; totCi++; if (STG >= 3) CountPH++;
MainCount(s, istep) ==
  [s EXCEPT !.Count = istep, !.totCi = s.totCi + 1,
            !.CountPH = IF s.STG >= 3 THEN s.CountPH + 1 ELSE s.CountPH]

\* Yval() and GammaE() for an index inside [1, N-1]; `past` is what the
\* cell behind the table holds when i = N-1 makes the code read Y2[N]
MainGamma(s, Tnew) == [s EXCEPT !.T = Tnew, !.Gamma = QDiv(QInt(1), Tnew)]

MainUpdateT(s, pe, i, pnew) == MainGamma(s, GammaET(s.Y2, pe, i, pnew))

MainUpdate(s, pe, i, past) ==
  MainUpdateT([s EXCEPT !.curbin = i, !.Y2 = YvalTable(s.Y2, i, s.df, T1, T2)],
              pe, i, YvalUp(past, s.df, T2))

\* AddedEHis(stmdi); CountH++; if (STG >= 3) { PROH[stmdi]++; CountPH++; }
MainRecord(s, i) ==
  [s EXCEPT !.Hist = AddedEHis(s.Hist, i), !.Htot = AddedEHis(s.Htot, i),
            !.CountH = s.CountH + 1,
            !.PROH = IF s.STG >= 3 THEN AddedEHis(s.PROH, i) ELSE s.PROH,
            !.CountPH = IF s.STG >= 3 THEN s.CountPH + 1 ELSE s.CountPH]

\* the assignment to f without the df that follows it
SetF_Stale(s, fn) == [s EXCEPT !.f = fn]

\* f = <new value>; df = log(f) * 0.5 / bin;
SetF(s, fn) == [s EXCEPT !.f = fn, !.df = DfOf(fn)]

\* stage >= 3, f_flag == 1, after HCHK()
Main3HchkOn(h) ==
  IF h.SWfold # h.SWf
  THEN ResetWindow([SetF(h, IF h.STG = 3 THEN Sqrt(h.f) ELSE h.f) EXCEPT !.SWchk = 1])
  ELSE [h EXCEPT !.SWchk = h.SWchk + 1]

\* stage >= 3, f_flag == 1
Main3Hchk(s) == Main3HchkOn(HCHK(s))

\* the stage >= 3 reduction following the configured scheme for constant_df
Main3Reduce_Scheme(s) ==
  IF f_flag = 4
  THEN ResetWindow(IF s.STG = 3
                   THEN [s EXCEPT !.df = QMul(s.df, Q(99, 100)),
                                  !.f = Exp(QMul(QMul(QInt(2), bin), QMul(s.df, Q(99, 100))))]
                   ELSE s)
  ELSE ResetWindow(SetF(s, IF s.STG = 3 THEN Sqrt(s.f) ELSE s.f))

\* stage >= 3, f_flag > 1
Main3Reduce(s) == ResetWindow(SetF(s, IF s.STG = 3 THEN Sqrt(s.f) ELSE s.f))

\* the stage 3 check falling back to stage 3 when it is met in stage 4
Main3Promote_Leave(s) ==
  IF FLe(s.f, finFval) THEN [s EXCEPT !.STG = IF s.STG = 4 THEN 3 ELSE 4] ELSE s

\* "Check stage 3": if (f <= finFval) STG = 4
Main3Promote(s) == IF FLe(s.f, finFval) THEN [s EXCEPT !.STG = 4] ELSE s

\* the f-reduction of the stage >= 3 block
Main3Schedule(s) ==
  IF f_flag = 1 THEN Main3Hchk(s)
  ELSE IF f_flag > 1 THEN Main3Reduce(s)
  ELSE s

\* the stage >= 3 block without its "if (m == 0)"
MainStage3_EveryStep(s, istep) ==
  IF s.STG >= 3 THEN Main3Promote(Main3Schedule(s)) ELSE s

\* if (STG >= 3) { ... }
MainStage3(s, istep) ==
  IF s.STG >= 3 /\ istep % TSC2 = 0 THEN Main3Promote(Main3Schedule(s)) ELSE s

\* stage 2, f_flag == 1: if (f <= pfinFval) { STG = 3; ... }
Main2HchkPromote(s) ==
  IF FLe(s.f, pfinFval)
  THEN ResetWindow([s EXCEPT !.STG = 3, !.CountPH = 0, !.SWchk = 1])
  ELSE s

\* stage 2, f_flag == 1, after HCHK()
Main2HchkOn(h) ==
  IF h.SWfold # h.SWf
  THEN ResetWindow([SetF(h, Sqrt(h.f)) EXCEPT !.SWchk = 1])
  ELSE [h EXCEPT !.SWchk = h.SWchk + 1]

\* stage 2, f_flag == 1
Main2Hchk(s) == Main2HchkPromote(Main2HchkOn(HCHK(s)))

\* the sqrt scheme without its reduction
Main2Sqrt_Stay(s, istep) == ResetWindow(s)

\* stage 2, f_flag == 2
Main2Sqrt(s, istep) ==
  ResetWindow(IF istep # 0 THEN SetF(s, Sqrt(s.f)) ELSE s)

\* the constant_f reduction without its ResetPH(); CountH = 0;
Main2ConstF_Keep(s, istep) ==
  SetF(s, IF istep # 0
          THEN (IF FAboveConst(s.f) THEN FReduceConst(s.f) ELSE Sqrt(s.f))
          ELSE s.f)

\* stage 2, f_flag == 3
Main2ConstF(s, istep) ==
  ResetWindow(SetF(s, IF istep # 0
                      THEN (IF FAboveConst(s.f) THEN FReduceConst(s.f) ELSE Sqrt(s.f))
                      ELSE s.f))

\* df = df - (df * reduce_val); f = exp(2 * bin * df);
SetDf(s, dn) == [s EXCEPT !.df = dn, !.f = Exp(QMul(QMul(QInt(2), bin), dn))]

\* the constant_df reduction with the sign slipped
Main2ConstDf_Grow(s, istep) ==
  IF istep # 0 THEN SetDf(s, QAdd(s.df, QMul(s.df, Q(1, 100)))) ELSE s

\* the constant_df reduction followed by the window reset of the other schemes
Main2ConstDf_Reset(s, istep) ==
  ResetWindow(IF istep # 0 THEN SetDf(s, QSub(s.df, QMul(s.df, Q(1, 100)))) ELSE s)

\* stage 2, f_flag == 4
Main2ConstDf(s, istep) ==
  IF istep # 0 THEN SetDf(s, QSub(s.df, QMul(s.df, Q(1, 100)))) ELSE s

\* the f-reduction of the stage 2 block
Main2Schedule(s, istep) ==
  IF f_flag = 0 THEN ResetWindow(s)
  ELSE IF f_flag = 1 THEN Main2Hchk(s)
  ELSE IF f_flag = 2 THEN Main2Sqrt(s, istep)
  ELSE IF f_flag = 3 THEN Main2ConstF(s, istep)
  ELSE Main2ConstDf(s, istep)

\* the promotion without its "f_flag > 1"
Main2Check_AnyStyle(s) ==
  IF FLe(s.f, Exp(QInt(0))) THEN [s EXCEPT !.fatal = "f_unity"]
  ELSE IF FLe(s.f, pfinFval) THEN [s EXCEPT !.STG = 3, !.CountPH = 0]
  ELSE s

\* if (f <= 1.0) error->all(FLERR,"f-value is less than unity"), and then
\* if ((f <= pfinFval) && (f_flag > 1)) { STG = 3; CountPH = 0; }
Main2Check(s) ==
  IF FLe(s.f, Exp(QInt(0))) THEN [s EXCEPT !.fatal = "f_unity"]
  ELSE IF FLe(s.f, pfinFval) /\ f_flag > 1 THEN [s EXCEPT !.STG = 3, !.CountPH = 0]
  ELSE s

\* if (STG == 2) { ... }
MainStage2(s, istep) ==
  IF s.STG = 2 /\ istep % TSC2 = 0 THEN Main2Check(Main2Schedule(s, istep)) ELSE s

\* the stage 1 block without its histogram reset
Main1Reset_Keep(s) == s

\* "Histogram reset": if (STG > 1) { ResetPH(); CountH = 0; }
Main1Reset(s) == IF s.STG > 1 THEN ResetWindow(s) ELSE s

\* the dig block with the "istep != 0" the stage 2 block has
MainStage1_SkipZero(s, istep) ==
  IF s.fatal = "none" /\ s.STG = 1 /\ istep % TSC1 = 0 /\ istep # 0
  THEN Main1Reset(TCHK([s EXCEPT !.Y2 = dig(s.Y2)]))
  ELSE s

\* if (STG == 1) { ... }
MainStage1(s, istep) ==
  IF s.fatal = "none" /\ s.STG = 1 /\ istep % TSC1 = 0
  THEN Main1Reset(TCHK([s EXCEPT !.Y2 = dig(s.Y2)]))
  ELSE s

\* the three stage blocks in ascending order
MainStages_Ascending(s, istep) ==
  MainStage3(MainStage2(MainStage1(s, istep), istep), istep)

\* the three stage blocks in the order MAIN runs them; a fatal error in the
\* stage 2 block ends the call
MainStages(s, istep) == MainStage1(MainStage2(MainStage3(s, istep), istep), istep)

\* MAIN for an index Yval accepts
MainAccepted(s, istep, pe, i, past) ==
  MainStages(MainRecord(MainUpdate(MainCount(s, istep), pe, i, past), i), istep)

\* ------------------------------------------------------------------------
\* bounds and inputs of the model
\* ------------------------------------------------------------------------

\* the host runs steps 1..MaxStep after setup
MaxStep == 4

\* the fix commands the model is run with; each satisfies Accepted
Commands ==
  {Cfg(ff, Q(1, 2), QInt(1), QInt(100), QInt(200), QInt(100),
       QInt(0), QInt(4), QInt(1), 1, 1) : ff \in 0..4}
  \cup
  {Cfg(2, Q(1, 4), Q(1, 16), QInt(100), QInt(200), QInt(100),
       QInt(-3), QInt(3), QInt(2), 2, 2),
   Cfg(2, Q(-1, 3), Q(1, 2), QInt(100), QInt(200), QInt(100),
       QInt(0), QInt(4), QInt(1), 2, 1),
   Cfg(0, QInt(1), Q(1, 2), QInt(100), QInt(200), QInt(100),
       QInt(0), QInt(4), QInt(1), 2, 1),
   Cfg(0, Q(-1, 3), Q(1, 2), QInt(100), QInt(200), QInt(100),
       QInt(0), QInt(4), QInt(1), 2, 1)}

\* commands and builds; the build only matters to HCHK, that is to hchk
Configs ==
  {Built(c, "double") : c \in Commands}
  \cup {Built(c, k) : c \in {x \in Commands : x.f_flag = 1}, k \in AbsKinds}

\* the potential energies compute pe may return: every half bin width from
\* one bin below Emin to one bin above Emax, and two quarter points
PotEs ==
  LET top == 4 * (N - 1) + 4
      js  == {j \in -4..top : j % 2 = 0 \/ j = 5 \/ j = 4 * (N - 2) + 1}
  IN  {QAdd(Emin, QMul(Q(j, 4), bin)) : j \in js}

\* what the memory cell behind the table may hold when the code reads it
Garbage == {QInt(0), QInt(3)}

\* ------------------------------------------------------------------------
\* init(): a fresh run
\* ------------------------------------------------------------------------

CutTmin == QInt(50)

CutTmax == QInt(50)

\* init() without the table Y2: the scalars, the cutoffs and the histograms
InitFields ==
  /\ ntimestep = 0
  /\ fatal = "none"
  /\ STG = 1
  /\ SWf = 1
  /\ SWfold = 1
  /\ Gamma = QInt(1)
  /\ Count = 0
  /\ CountH = 0
  /\ totCi = 0
  /\ SWchk = 1
  /\ CountPH = 0
  /\ T = ST
  /\ f = Exp(QMul(QMul(initf, QInt(2)), bin))
  /\ df = QDiv(QMul(QMul(QMul(initf, QInt(2)), bin), Q(1, 2)), bin)
  /\ T1 = QDiv(cfg.TL, ST)
  /\ T2 = QDiv(cfg.TH, ST)
  /\ CTmin = QDiv(QAdd(cfg.TL, CutTmin), ST)
  /\ CTmax = QDiv(QSub(cfg.TH, CutTmax), ST)
  /\ Hist = [i \in 0..(N - 1) |-> 0]
  /\ Htot = [i \in 0..(N - 1) |-> 0]
  /\ PROH = [i \in 0..(N - 1) |-> 0]
  /\ curbin \in {-1, 0}
  /\ potE = QInt(0)
  /\ STGin = 1

\* the engine on its own: no restart file is followed, the process runs on
\* one rank
HostIdle == orest = <<>> /\ stdio = <<>> /\ pc = "engine" /\ mpi = <<>> /\ rxc = <<>>

\* the state after the constructor and init(): Y1[i] = Y2[i] = T2
Init ==
  /\ cfg \in {c \in Configs : Accepted(c)}
  /\ phase = "init"
  /\ InitFields
  /\ HostIdle
  /\ Y2 = [i \in 0..(N - 1) |-> QDiv(cfg.TH, ST)]

\* ------------------------------------------------------------------------
\* post_force(): the per-step hook
\* ------------------------------------------------------------------------

Install(s) ==
  /\ STG' = s.STG
  /\ f' = s.f
  /\ df' = s.df
  /\ Y2' = s.Y2
  /\ Hist' = s.Hist
  /\ Htot' = s.Htot
  /\ PROH' = s.PROH
  /\ CountH' = s.CountH
  /\ CountPH' = s.CountPH
  /\ Count' = s.Count
  /\ totCi' = s.totCi
  /\ SWf' = s.SWf
  /\ SWfold' = s.SWfold
  /\ SWchk' = s.SWchk
  /\ T' = s.T
  /\ Gamma' = s.Gamma
  /\ curbin' = s.curbin
  /\ fatal' = s.fatal

\* error->all() before MAIN: the run ends with the object as it was
Abort(why) == Install([Cur EXCEPT !.fatal = why])

\* error->all() in Yval(), or the access behind the table ending the
\* process: Count, totCi, CountPH and curbin are already written
YvalAbort(istep, i, why) ==
  Install([MainCount(Cur, istep) EXCEPT !.curbin = i, !.fatal = why])

\* the outcome of MAIN: the fields as MAIN left them, with fatal set when
\* "f-value is less than unity" ended the run inside the stage 2 block
Finish(r) == Install(r)

\* if ((potE < Emin) || (potE > Emax)) error->all(...)
PotEOutOfRange(pe) == QLt(pe, Emin) \/ QLt(Emax, pe)

post_forceAt(istep, pe, i) ==
      \/ /\ PotEOutOfRange(pe)
         /\ Abort("pe_range")
      \/ /\ ~PotEOutOfRange(pe)
         /\ YvalOutOfRange(i)
         /\ YvalAbort(istep, i, "index_range")
      \/ /\ ~PotEOutOfRange(pe)
         /\ ~YvalOutOfRange(i)
         /\ i + 1 < N
         /\ Finish(MainAccepted(Cur, istep, pe, i, QInt(0)))
      \/ /\ ~PotEOutOfRange(pe)
         /\ ~YvalOutOfRange(i)
         /\ i + 1 >= N
         /\ \E past \in Garbage : Finish(MainAccepted(Cur, istep, pe, i, past))
      \/ /\ ~PotEOutOfRange(pe)
         /\ ~YvalOutOfRange(i)
         /\ i + 1 >= N
         /\ YvalAbort(istep, i, "memory")

post_force(istep, pe) == post_forceAt(istep, pe, YvalIndex(pe))

\* setup(): post_force at the step the run starts from
setup ==
  /\ phase = "init"
  /\ fatal = "none"
  /\ \E pe \in PotEs : post_force(ntimestep, pe) /\ potE' = pe
  /\ STGin' = STG
  /\ phase' = "run"
  /\ UNCHANGED <<cfg, ntimestep, T1, T2, CTmin, CTmax>>

\* one step of the integrator: ntimestep++, forces and pe, post_force
integrate ==
  /\ phase = "run"
  /\ fatal = "none"
  /\ ntimestep < MaxStep
  /\ ntimestep' = ntimestep + 1
  /\ \E pe \in PotEs : post_force(ntimestep + 1, pe) /\ potE' = pe
  /\ STGin' = STG
  /\ UNCHANGED <<cfg, phase, T1, T2, CTmin, CTmax>>

Setup == setup /\ UNCHANGED hostVars

Step == integrate /\ UNCHANGED hostVars

Next == Setup \/ Step

Spec == Init /\ [][Next]_vars

\* ------------------------------------------------------------------------
\* init() with OREST: the run continues from the values of oREST.<walker>.d
\* ------------------------------------------------------------------------

\* the fix commands of the restarted runs: T1 = 1, T2 = 3, four bins
RestartCommands ==
  {Cfg(ff, Q(1, 20), Q(1, 80), QInt(100), QInt(300), QInt(100),
       QInt(0), QInt(3), QInt(1), 1, 2) : ff \in 0..4}

RestartConfigs ==
  {Built(c, "double") : c \in RestartCommands}
  \cup {Built(c, k) : c \in {x \in RestartCommands : x.f_flag = 1}, k \in AbsKinds}

\* STG and ln f of the restart files: stage 2 above and at pfinFval, stage 3
\* at pfinFval, one halving above finFval and at finFval (a file written
\* under a larger dFval3), stage 4 at finFval
RestartStages ==
  {<<2, Q(1, 10)>>, <<2, Q(1, 40)>>, <<3, Q(1, 40)>>, <<3, Q(1, 200)>>,
   <<3, Q(1, 400)>>, <<4, Q(1, 400)>>}

\* the temperature table of the restart files
RestartTable == <<QInt(1), QInt(2), QInt(2), QInt(3)>>

\* the values init() reads: list[0..12], then Y2, Htot and PROH
Restarts ==
  {[STG |-> r[1], f |-> Exp(r[2]), CountH |-> 0, SWf |-> 1, SWfold |-> 1,
    SWchk |-> 1, Count |-> 0, totCi |-> 0, CountPH |-> 0,
    T1 |-> QInt(1), T2 |-> QInt(3), CTmin |-> Q(3, 2), CTmax |-> Q(5, 2),
    Y2 |-> [i \in 0..3 |-> RestartTable[i + 1]],
    Htot |-> [i \in 0..3 |-> 0], PROH |-> [i \in 0..3 |-> 0]] : r \in RestartStages}

\* init() with OREST set: the fresh values, then the fields of the file over
\* them, then df = log(f) * 0.5 / bin; Hist is not in the file
RestartFrom(r) ==
  /\ phase = "init"
  /\ ntimestep = 0
  /\ fatal = "none"
  /\ Gamma = QInt(1)
  /\ T = ST
  /\ Hist = [i \in 0..(N - 1) |-> 0]
  /\ STG = r.STG
  /\ f = r.f
  /\ CountH = r.CountH
  /\ SWf = r.SWf
  /\ SWfold = r.SWfold
  /\ SWchk = r.SWchk
  /\ Count = r.Count
  /\ totCi = r.totCi
  /\ CountPH = r.CountPH
  /\ T1 = r.T1
  /\ T2 = r.T2
  /\ CTmin = r.CTmin
  /\ CTmax = r.CTmax
  /\ Y2 = r.Y2
  /\ Htot = r.Htot
  /\ PROH = r.PROH
  /\ df = DfOf(r.f)
  /\ curbin \in {-1, 0}
  /\ potE = QInt(0)
  /\ STGin = r.STG

RestartInit ==
  /\ HostIdle
  /\ cfg \in {c \in RestartConfigs : Accepted(c)}
  /\ \E r \in Restarts : RestartFrom(r)

RestartSpec == RestartInit /\ [][Next]_vars

\* a run from either start: init() without or with a restart file
StartSpec == (Init \/ RestartInit) /\ [][Next]_vars

\* ------------------------------------------------------------------------
\* the sqrt schedule from stage 2 on, with the host stepping on
\* ------------------------------------------------------------------------

\* sqrt with TSC2 = 1: ln pfinFval = 1/40, ln finFval = 1/400
ScheduleCommand ==
  Cfg(2, Q(1, 20), Q(1, 80), QInt(100), QInt(300), QInt(100),
      QInt(0), QInt(3), QInt(1), 1, 1)

\* restart files of stage 2 with f above pfinFval
ScheduleRestarts ==
  {[r EXCEPT !.STG = 2, !.f = Exp(x)] : r \in Restarts, x \in {Q(1, 32), Q(3, 80)}}

ScheduleInit ==
  /\ HostIdle
  /\ cfg = Built(ScheduleCommand, "double")
  /\ \E r \in ScheduleRestarts : RestartFrom(r)

\* the run has a step left to take
ScheduleCanAdvance ==
  fatal = "none" /\ (phase = "init" \/ (phase = "run" /\ ntimestep < MaxStep))

\* setup, or one more timestep
ScheduleAdvance == phase' # phase \/ ntimestep' # ntimestep

\* the integrator takes its steps one after the other: a run that can go on
\* does go on (weak fairness of the stepping, written without ENABLED)
ScheduleSpec ==
  /\ ScheduleInit
  /\ [][Next]_vars
  /\ ([]<>(~ScheduleCanAdvance) \/ []<><<ScheduleAdvance>>_vars)

\* ------------------------------------------------------------------------
\* oREST.<walker>.d: write_orest() and the read of init()
\* ------------------------------------------------------------------------

\* the first k decimals of r / d for 0 <= r < d, as an integer
RECURSIVE Decimals(_, _, _)
Decimals(r, d, k) ==
  IF k = 0 THEN 0 ELSE Decimals((r * 10) % d, d, k - 1) + ((r * 10) \div d) * (10 ^ (k - 1))

\* what is left of r / d after its first k decimals
RECURSIVE DecimalsRest(_, _, _)
DecimalsRest(r, d, k) == IF k = 0 THEN r ELSE DecimalsRest((r * 10) % d, d, k - 1)

\* printf("%f") of n / d >= 0 in millionths: six decimals, to nearest, a tie
\* to the even last digit
Millionths(n, d) ==
  LET cut  == (n \div d) * 1000000 + Decimals(n % d, d, 6)
      rest == 2 * DecimalsRest(n % d, d, 6)
  IN  IF rest > d \/ (rest = d /\ cut % 2 = 1) THEN cut + 1 ELSE cut

\* the number a "%f" rendering of the double a denotes; inf and nan are
\* printed as words
PrintF(a) ==
  IF ~IsFinite(a) THEN a
  ELSE IF a[1] >= 0 THEN Q(Millionths(a[1], a[2]), 1000000)
  ELSE QNeg(Q(Millionths(-a[1], a[2]), 1000000))

\* decimal digits of the integer k >= 0
RECURSIVE Digits(_)
Digits(k) == IF k < 10 THEN 1 ELSE 1 + Digits(k \div 10)

\* characters of the "%f" rendering of a: sign, integer digits, point, six
\* decimals ("inf", "nan", "-inf", "-nan" for the specials)
WidthF(a) ==
  IF ~IsFinite(a) THEN (IF a[1] > 0 THEN 3 ELSE 4)
  ELSE (IF a[1] < 0 THEN 1 ELSE 0) + Digits(AbsI(a[1]) \div a[2]) + 7

\* fprintf(fp_orest, "%f", x) for a double x: the value the text denotes and
\* the characters it takes
Tok(a) == [v |-> PrintF(a), w |-> WidthF(a), num |-> IsFinite(a)]

\* fprintf(fp_orest, "%f\n", f): exp(q) with rational q # 0 has no finite
\* decimal expansion, the text denotes its six-decimal rounding, marked
\* by digits; exp(q) < 10 for the q of the model
TokExp(fv) ==
  [v |-> IF fv.ln = QInt(0) THEN fv ELSE [ln |-> fv.ln, digits |-> 6],
   w |-> 8, num |-> TRUE]

\* fprintf(fp_orest, "%d\n", STG)
TokInt(k) == [v |-> QInt(k), w |-> (IF k < 0 THEN 1 ELSE 0) + Digits(AbsI(k)), num |-> TRUE]

\* write_orest(): the list in the order it is printed, for an engine of n
\* bins with the window t = <<T1, T2, CTmin, CTmax>>
OrestList(s, n, t) ==
  <<TokInt(s.STG), TokExp(s.f), Tok(QInt(s.CountH)), Tok(QInt(s.SWf)),
    Tok(QInt(s.SWfold)), Tok(QInt(s.SWchk)), Tok(QInt(s.Count)),
    Tok(QInt(s.totCi)), Tok(QInt(s.CountPH)),
    Tok(t[1]), Tok(t[2]), Tok(t[3]), Tok(t[4])>>
  \o [k \in 1..n |-> Tok(s.Y2[k - 1])]
  \o [k \in 1..n |-> Tok(QInt(s.Htot[k - 1]))]
  \o [k \in 1..n |-> Tok(QInt(s.PROH[k - 1]))]

write_orestList(s) == OrestList(s, N, <<T1, T2, CTmin, CTmax>>)

RECURSIVE SumWidths(_)
SumWidths(file) ==
  IF file = <<>> THEN 0 ELSE file[1].w + 1 + SumWidths(Tail(file))

\* file.tellg() at the end: every value is followed by one character, and
\* each of the three table lines by a newline more
FileBytes(file, n) ==
  SumWidths(file)
    + (IF Len(file) >= 13 + n THEN 1 ELSE 0)
    + (IF Len(file) >= 13 + 2 * n THEN 1 ELSE 0)
    + (IF Len(file) >= 13 + 3 * n THEN 1 ELSE 0)

\* int numb = 13; int nsize = 3*N + numb;
nsize == 3 * N + 13

\* if (sz < (nsize*sizeof(double))) error->one(...)
RestartTooSmall(file) == FileBytes(file, N) < nsize * 8

\* for (i < nsize) file >> list[i]: the values read before the first
\* extraction that fails
RECURSIVE Extracted(_)
Extracted(file) ==
  IF file = <<>> \/ ~file[1].num THEN <<>> ELSE <<file[1].v>> \o Extracted(Tail(file))

\* list[] after the loop: the extracted values, and for the others what the
\* allocation held (g)
ReadList(file, g) ==
  [k \in 1..nsize |->
     IF k <= Len(Extracted(file)) THEN Extracted(file)[k] ELSE g[k]]

\* what the allocation of list[] may hold where no value was extracted
GarbageList == {QInt(0), QInt(3)}

\* init() with OREST: the values of list[] go into the fields, the integer
\* fields through static_cast<int>; everything else as the constructor and
\* the first part of init() left it
ReadInto(list) ==
  /\ STG' = Trunc(list[1])
  /\ f' = list[2]
  /\ CountH' = Trunc(list[3])
  /\ SWf' = Trunc(list[4])
  /\ SWfold' = Trunc(list[5])
  /\ SWchk' = Trunc(list[6])
  /\ Count' = Trunc(list[7])
  /\ totCi' = Trunc(list[8])
  /\ CountPH' = Trunc(list[9])
  /\ T1' = list[10]
  /\ T2' = list[11]
  /\ CTmin' = list[12]
  /\ CTmax' = list[13]
  /\ Y2' = [i \in 0..(N - 1) |-> list[14 + i]]
  /\ Htot' = [i \in 0..(N - 1) |-> Trunc(list[14 + N + i])]
  /\ PROH' = [i \in 0..(N - 1) |-> Trunc(list[14 + 2 * N + i])]
  /\ df' = QDiv(QMul(Log(list[2]), Q(1, 2)), bin)
  /\ Hist' = [i \in 0..(N - 1) |-> 0]
  /\ Gamma' = QInt(1)
  /\ T' = ST
  /\ curbin' = -1
  /\ STGin' = Trunc(list[1])
  /\ fatal' = "none"

\* error->one(FLERR,"STMD: Restart file is empty/invalid"): the fields are
\* those of the constructor and of the first part of init()
ReadRefused ==
  /\ fatal' = "restart_invalid"
  /\ STG' = 1 /\ SWf' = 1 /\ SWfold' = 1 /\ SWchk' = 1
  /\ Count' = 0 /\ CountH' = 0 /\ totCi' = 0 /\ CountPH' = 0
  /\ f' = Exp(QMul(QMul(initf, QInt(2)), bin))
  /\ df' = DfOf(Exp(QMul(QMul(initf, QInt(2)), bin)))
  /\ T1' = QDiv(cfg.TL, ST) /\ T2' = QDiv(cfg.TH, ST)
  /\ CTmin' = QDiv(QAdd(cfg.TL, CutTmin), ST)
  /\ CTmax' = QDiv(QSub(cfg.TH, CutTmax), ST)
  /\ Y2' = [i \in 0..(N - 1) |-> QDiv(cfg.TH, ST)]
  /\ Hist' = [i \in 0..(N - 1) |-> 0]
  /\ Htot' = [i \in 0..(N - 1) |-> 0]
  /\ PROH' = [i \in 0..(N - 1) |-> 0]
  /\ Gamma' = QInt(1) /\ T' = ST /\ curbin' = -1 /\ STGin' = 1

\* the slots of list[] no extraction reached
Unread(file) == (Len(Extracted(file)) + 1)..nsize

\* init() of a new process with OREST on the file as it lies on disk
init_restart ==
  /\ pc \in {"exited", "crashed", "left"}
  /\ pc' = "reloaded"
  /\ phase' = "init"
  /\ ntimestep' = 0
  /\ potE' = QInt(0)
  /\ stdio' = <<>>
  /\ UNCHANGED <<cfg, orest, mpi, rxc>>
  /\ \/ RestartTooSmall(orest) /\ ReadRefused
     \/ /\ ~RestartTooSmall(orest)
        /\ \E g \in [Unread(orest) -> GarbageList] : ReadInto(ReadList(orest, g))

\* timesteps of the runs that write their restart file
MaxHostStep == 2

\* a fix command with its RSTFRQ, in a build whose stdio buffers hold b
\* characters
Hosted(c, r, b) ==
  [x \in DOMAIN c \cup {"RSTFRQ", "bufsiz"} |->
     IF x = "RSTFRQ" THEN r ELSE IF x = "bufsiz" THEN b ELSE c[x]]

RSTFRQ == cfg.RSTFRQ

\* the longest prefix of the printed values that fits into b characters
RECURSIVE FitTokens(_, _)
FitTokens(file, b) ==
  IF file = <<>> \/ file[1].w + 1 > b THEN 0
  ELSE 1 + FitTokens(Tail(file), b - (file[1].w + 1))

\* the values that have left the buffer of fp_orest when write_orest()
\* returns: the buffer is written out each time it is full
WrittenOut(list) ==
  FitTokens(list, (FileBytes(list, N) \div cfg.bufsiz) * cfg.bufsiz)

\* write_orest() when ntimestep % RSTFRQ == 0: freopen(filename,"w",fp_orest)
\* empties the file, the fprintf calls fill the buffer of the stream
write_orest ==
  /\ orest' = SubSeq(write_orestList(Cur), 1, WrittenOut(write_orestList(Cur)))
  /\ stdio' = SubSeq(write_orestList(Cur), WrittenOut(write_orestList(Cur)) + 1, nsize)

\* end_of_step(): write_temperature(); write_orest(); (one world)
end_of_step ==
  /\ pc = "eos"
  /\ pc' = "host"
  /\ IF ntimestep % RSTFRQ = 0 THEN write_orest ELSE UNCHANGED <<orest, stdio>>
  /\ UNCHANGED <<cfg, phase, ntimestep, fatal, STG, f, df, Y2, Hist, Htot, PROH,
                 CountH, CountPH, Count, totCi, SWf, SWfold, SWchk,
                 T, Gamma, curbin, T1, T2, CTmin, CTmax, potE, STGin, mpi, rxc>>

\* setup() in the process that owns the file
HostSetup == pc = "host" /\ setup /\ UNCHANGED hostVars

\* a timestep: post_force() now, end_of_step() next unless the run ended
HostStep ==
  /\ pc = "host"
  /\ ntimestep < MaxHostStep
  /\ integrate
  /\ pc' = IF fatal' = "none" THEN "eos" ELSE "host"
  /\ UNCHANGED <<orest, stdio, mpi, rxc>>

\* the process ends, at the end of the run or in error->all(): exit() writes
\* the buffer of fp_orest out
HostExit ==
  /\ pc = "host"
  /\ phase = "run"
  /\ pc' = "exited"
  /\ orest' = orest \o stdio
  /\ stdio' = <<>>
  /\ UNCHANGED <<cfg, phase, ntimestep, fatal, STG, f, df, Y2, Hist, Htot, PROH,
                 CountH, CountPH, Count, totCi, SWf, SWfold, SWchk,
                 T, Gamma, curbin, T1, T2, CTmin, CTmax, potE, STGin, mpi, rxc>>

\* the process is killed between two calls of the fix: the buffer is lost
HostCrash ==
  /\ pc = "host"
  /\ phase = "run"
  /\ fatal = "none"
  /\ pc' = "crashed"
  /\ stdio' = <<>>
  /\ UNCHANGED <<cfg, phase, ntimestep, fatal, STG, f, df, Y2, Hist, Htot, PROH,
                 CountH, CountPH, Count, totCi, SWf, SWfold, SWchk,
                 T, Gamma, curbin, T1, T2, CTmin, CTmax, potE, STGin, orest, mpi, rxc>>

\* the commands of the runs that write their restart file
HostCommands == {c \in Commands : c.initf = Q(1, 2)}

BufSizes == {64, 4096}

HostConfigs ==
  {Hosted(Built(c, "double"), r, b) : c \in HostCommands, r \in {1, 2}, b \in BufSizes}

\* the engine of an earlier run after `steps` timesteps, with n bins, in
\* stage 4 with f = 1: the table between T1 = 1 and T2 = 2, the samples
\* spread over the bins 1..n-2
EarlierEngine(n, steps) ==
  [STG |-> 4, f |-> Exp(QInt(0)), CountH |-> 1, SWf |-> 1, SWfold |-> 1, SWchk |-> 1,
   Count |-> steps, totCi |-> steps + 1, CountPH |-> 2 * steps,
   Y2 |-> [i \in 0..(n - 1) |-> IF i = 0 THEN QInt(1) ELSE QInt(2)],
   Htot |-> [i \in 0..(n - 1) |-> IF i \in 1..(n - 2) THEN (steps + 1) \div (n - 2) ELSE 0],
   PROH |-> [i \in 0..(n - 1) |-> IF i \in 1..(n - 2) THEN steps \div (n - 2) ELSE 0]]

\* the file such a run wrote
EarlierFile(n, steps) ==
  OrestList(EarlierEngine(n, steps), n, <<QInt(1), QInt(2), Q(3, 2), Q(3, 2)>>)

\* files an earlier run may have left for a run with five bins: a whole
\* file, a whole file cut after 26 values, and files of a run with four
\* bins, written at step 4 and at step 1000
LeftFiles ==
  {EarlierFile(5, 4), SubSeq(EarlierFile(5, 4), 1, 26),
   EarlierFile(4, 4), EarlierFile(4, 1000)}

\* a fresh run: init() has opened oREST.<walker>.d with "w"; or a run that
\* is to continue from the file an earlier run left
HostInit ==
  /\ cfg \in {c \in HostConfigs : Accepted(c)}
  /\ phase = "init"
  /\ InitFields
  /\ Y2 = [i \in 0..(N - 1) |-> QDiv(cfg.TH, ST)]
  /\ stdio = <<>>
  /\ mpi = <<>>
  /\ rxc = <<>>
  /\ \/ orest = <<>> /\ pc = "host"
     \/ orest \in LeftFiles /\ pc = "left"

HostNext == HostSetup \/ HostStep \/ end_of_step \/ HostExit \/ HostCrash \/ init_restart

HostSpec == HostInit /\ [][HostNext]_vars

\* ------------------------------------------------------------------------
\* post_force() on the ranks of one walker
\* ------------------------------------------------------------------------

\* comm->me of the ranks: 0 and one other
Ranks == {0, 1}

\* timesteps of the runs on two ranks
MaxRankStep == 1

\* the engine init() leaves on a rank that read no file
FreshEngine ==
  [STG |-> 1, f |-> Exp(QMul(QMul(initf, QInt(2)), bin)),
   df |-> QDiv(QMul(QMul(QMul(initf, QInt(2)), bin), Q(1, 2)), bin),
   Y2 |-> [i \in 0..(N - 1) |-> QDiv(cfg.TH, ST)],
   Hist |-> [i \in 0..(N - 1) |-> 0], Htot |-> [i \in 0..(N - 1) |-> 0],
   PROH |-> [i \in 0..(N - 1) |-> 0], CountH |-> 0, CountPH |-> 0, Count |-> 0,
   totCi |-> 0, SWf |-> 1, SWfold |-> 1, SWchk |-> 1,
   T |-> ST, Gamma |-> QInt(1), curbin |-> -1, fatal |-> "none"]

\* post_force() up to the broadcast, on the engine s: what the range check
\* and MAIN can leave
post_forceOn(s, istep, pe, i) ==
  IF PotEOutOfRange(pe) THEN {[s EXCEPT !.fatal = "pe_range"]}
  ELSE IF YvalOutOfRange(i)
    THEN {[MainCount(s, istep) EXCEPT !.curbin = i, !.fatal = "index_range"]}
  ELSE IF i + 1 < N THEN {MainAccepted(s, istep, pe, i, QInt(0))}
  ELSE {MainAccepted(s, istep, pe, i, past) : past \in Garbage}
       \cup {[MainCount(s, istep) EXCEPT !.curbin = i, !.fatal = "memory"]}

\* compute_scalar() of compute pe: a collective call, every rank of the
\* walker gets the same potential energy; at setup and once per timestep
RankEnergy ==
  /\ \A r \in Ranks : mpi.at[r] = "idle"
  /\ \/ phase = "init" /\ phase' = "run" /\ ntimestep' = ntimestep
     \/ phase = "run" /\ ntimestep < MaxRankStep /\ phase' = phase
        /\ ntimestep' = ntimestep + 1
  /\ potE' \in PotEs
  /\ mpi' = [mpi EXCEPT !.at = [r \in Ranks |-> "main"]]
  /\ UNCHANGED <<cfg, fatal, STG, f, df, Y2, Hist, Htot, PROH,
                 CountH, CountPH, Count, totCi, SWf, SWfold, SWchk,
                 T, Gamma, curbin, T1, T2, CTmin, CTmax, STGin, orest, stdio, pc, rxc>>

\* rank 0: the range check and MAIN on the engine that read the file
RankMain0 ==
  /\ mpi.at[0] = "main"
  /\ post_force(ntimestep, potE)
  /\ STGin' = STG
  /\ mpi' = [mpi EXCEPT !.at[0] = IF fatal' = "none" THEN "bcast" ELSE "dead"]
  /\ UNCHANGED <<cfg, phase, ntimestep, potE, T1, T2, CTmin, CTmax, orest, stdio, pc, rxc>>

\* another rank: the range check and MAIN on its own engine
RankMain1 ==
  /\ mpi.at[1] = "main"
  /\ \E s \in post_forceOn(mpi.peer, ntimestep, potE, YvalIndex(potE)) :
       mpi' = [mpi EXCEPT !.peer = s,
                          !.at[1] = IF s.fatal = "none" THEN "bcast" ELSE "dead"]
  /\ UNCHANGED <<cfg, phase, ntimestep, fatal, STG, f, df, Y2, Hist, Htot, PROH,
                 CountH, CountPH, Count, totCi, SWf, SWfold, SWchk,
                 T, Gamma, curbin, T1, T2, CTmin, CTmax, potE, STGin, orest, stdio, pc, rxc>>

\* the receiving side of MPI_Bcast leaving its Gamma as MAIN set it
Bcast1_Local ==
  /\ mpi.at[1] = "bcast"
  /\ mpi.wire # <<>>
  /\ mpi' = [mpi EXCEPT !.wire = Tail(mpi.wire), !.at[1] = "scale"]
  /\ UNCHANGED <<cfg, phase, ntimestep, fatal, STG, f, df, Y2, Hist, Htot, PROH,
                 CountH, CountPH, Count, totCi, SWf, SWfold, SWchk,
                 T, Gamma, curbin, T1, T2, CTmin, CTmax, potE, STGin, orest, stdio, pc, rxc>>

\* MPI_Bcast(&Gamma, 1, MPI_DOUBLE, 0, world) on another rank: it waits for
\* the value of rank 0 and stores it in its Gamma
Bcast1 ==
  /\ mpi.at[1] = "bcast"
  /\ mpi.wire # <<>>
  /\ mpi' = [mpi EXCEPT !.peer.Gamma = Head(mpi.wire), !.wire = Tail(mpi.wire),
                        !.at[1] = "scale"]
  /\ UNCHANGED <<cfg, phase, ntimestep, fatal, STG, f, df, Y2, Hist, Htot, PROH,
                 CountH, CountPH, Count, totCi, SWf, SWfold, SWchk,
                 T, Gamma, curbin, T1, T2, CTmin, CTmax, potE, STGin, orest, stdio, pc, rxc>>

\* MPI_Bcast on rank 0: its Gamma goes out, the call need not wait
Bcast0 ==
  /\ mpi.at[0] = "bcast"
  /\ mpi' = [mpi EXCEPT !.wire = Append(mpi.wire, Gamma), !.at[0] = "scale"]
  /\ UNCHANGED <<cfg, phase, ntimestep, fatal, STG, f, df, Y2, Hist, Htot, PROH,
                 CountH, CountPH, Count, totCi, SWf, SWfold, SWchk,
                 T, Gamma, curbin, T1, T2, CTmin, CTmax, potE, STGin, orest, stdio, pc, rxc>>

\* f[i][0..2] *= Gamma on rank r, with the Gamma of that rank's object
Scale(r) ==
  /\ mpi.at[r] = "scale"
  /\ mpi' = [mpi EXCEPT !.used[r] = IF r = 0 THEN Gamma ELSE mpi.peer.Gamma,
                        !.at[r] = "idle"]
  /\ UNCHANGED <<cfg, phase, ntimestep, fatal, STG, f, df, Y2, Hist, Htot, PROH,
                 CountH, CountPH, Count, totCi, SWf, SWfold, SWchk,
                 T, Gamma, curbin, T1, T2, CTmin, CTmax, potE, STGin, orest, stdio, pc, rxc>>

\* init() on two ranks, fresh or with OREST: the file is read on rank 0 only
RankInit ==
  /\ cfg \in {c \in RestartConfigs : c.abs = "double" /\ Accepted(c)}
  /\ orest = <<>>
  /\ stdio = <<>>
  /\ pc = "engine"
  /\ rxc = <<>>
  /\ \/ /\ phase = "init"
        /\ InitFields
        /\ Y2 = [i \in 0..(N - 1) |-> QDiv(cfg.TH, ST)]
     \/ \E r \in Restarts : RestartFrom(r)
  /\ mpi = [peer |-> FreshEngine, at |-> [r \in Ranks |-> "idle"], wire |-> <<>>,
            used |-> [r \in Ranks |-> <<>>]]

RankNext ==
  RankEnergy \/ RankMain0 \/ RankMain1 \/ Bcast0 \/ Bcast1 \/ Scale(0) \/ Scale(1)

RankSpec == RankInit /\ [][RankNext]_vars

\* ------------------------------------------------------------------------
\* the tempering coordinator: one exchange attempt of this walker with its
\* neighbour (the acceptance rule is taken from the documentation)
\* ------------------------------------------------------------------------

\* timesteps between two attempts
nevery == 2

\* the summary this walker reports: stage, energy, temperature, window
Summary == [STG |-> STG, U |-> potE, T |-> T, Emin |-> Emin, Emax |-> Emax]

\* the summaries the neighbour may report: stage 1 or 3, an energy inside
\* its window, a temperature of its table; its window is this walker's, or
\* that window moved up by two bins
Partners ==
  {[STG |-> g, U |-> QAdd(Emin, QMul(QInt(u), bin)), T |-> t,
    Emin |-> QAdd(Emin, QMul(QInt(w), bin)), Emax |-> QAdd(Emax, QMul(QInt(w), bin))] :
     g \in {1, 3}, u \in {2}, t \in {QInt(1), QInt(2)}, w \in {0, 2}}

\* ln of the uniform draws of the Boltzmann comparison
Draws == {QInt(-2), Q(-1, 100)}

\* a gate that looks at the stage of the neighbour only
Admitted_Neighbour(ex, a, b) ==
  /\ ex = 1
  /\ QLe(b.Emin, a.U) /\ QLe(a.U, b.Emax)
  /\ QLe(a.Emin, b.U) /\ QLe(b.U, a.Emax)
  /\ b.STG >= 2

\* the exchange is admitted: swaps are on, each energy lies inside the
\* other walker's window, both walkers have left stage 1
Admitted(ex, a, b) ==
  /\ ex = 1
  /\ QLe(b.Emin, a.U) /\ QLe(a.U, b.Emax)
  /\ QLe(a.Emin, b.U) /\ QLe(b.U, a.Emax)
  /\ a.STG >= 2 /\ b.STG >= 2

\* Delta = (1/T_a(U_a) - 1/T_b(U_b)) (U_a - U_b) / k_B, with k_B = 1
Delta(a, b) ==
  QMul(QSub(QDiv(QInt(1), a.T), QDiv(QInt(1), b.T)), QSub(a.U, b.U))

\* the swap is made: admitted, and the draw u is below exp(Delta)
Swapped(ex, a, b, lnu) == Admitted(ex, a, b) /\ QLt(lnu, Delta(a, b))

\* timesteps of the runs that attempt exchanges
MaxExchangeStep == 2

\* the coordinator between two attempts
NoAttempt(ex) ==
  [EX_flag |-> ex, me |-> <<>>, partner |-> <<>>, lnu |-> <<>>, swap |-> FALSE]

\* a timestep of the walker
ExchangeStep ==
  /\ ntimestep < MaxExchangeStep
  /\ integrate
  /\ rxc' = NoAttempt(rxc.EX_flag)
  /\ UNCHANGED <<orest, stdio, pc, mpi>>

\* the attempt after a step with step mod nevery = 0; the engine of the
\* walker is left as it is
attempt ==
  /\ phase = "run"
  /\ fatal = "none"
  /\ ntimestep % nevery = 0
  /\ rxc.me = <<>>
  /\ \E b \in Partners, lnu \in Draws :
       rxc' = [rxc EXCEPT !.me = Summary, !.partner = b, !.lnu = lnu,
                          !.swap = Swapped(rxc.EX_flag, Summary, b, lnu)]
  /\ UNCHANGED <<cfg, phase, ntimestep, fatal, STG, f, df, Y2, Hist, Htot, PROH,
                 CountH, CountPH, Count, totCi, SWf, SWfold, SWchk,
                 T, Gamma, curbin, T1, T2, CTmin, CTmax, potE, STGin,
                 orest, stdio, pc, mpi>>

\* a walker under the sqrt scheme, fresh or continued from a file of stage
\* 2, swaps turned off or on
ExchangeInit ==
  /\ cfg \in {c \in RestartConfigs : Accepted(c) /\ c.f_flag = 2}
  /\ \/ /\ phase = "init"
        /\ InitFields
        /\ Y2 = [i \in 0..(N - 1) |-> QDiv(cfg.TH, ST)]
     \/ \E r \in {x \in Restarts : x.STG = 2 /\ x.f = Exp(Q(1, 10))} : RestartFrom(r)
  /\ curbin = -1
  /\ orest = <<>> /\ stdio = <<>> /\ pc = "engine" /\ mpi = <<>>
  /\ \E ex \in {0, 1} : rxc = NoAttempt(ex)

ExchangeNext == Setup \/ ExchangeStep \/ attempt

ExchangeSpec == ExchangeInit /\ [][ExchangeNext]_vars

\* ------------------------------------------------------------------------
\* dig() on its own: every table over three temperatures
\* ------------------------------------------------------------------------

DigConfigs == {c \in Configs : c.f_flag = 0 /\ c.initf = Q(1, 2)}

DigValues == {QInt(1), Q(3, 2), QInt(2)}

DigInit ==
  /\ cfg \in DigConfigs
  /\ phase = "dig"
  /\ InitFields
  /\ HostIdle
  /\ Y2 \in [0..(N - 1) -> DigValues]

DigStep ==
  /\ phase = "dig"
  /\ Y2' = dig(Y2)
  /\ phase' = "dug"
  /\ UNCHANGED <<cfg, ntimestep, fatal, STG, f, df, Hist, Htot, PROH,
                 CountH, CountPH, Count, totCi, SWf, SWfold, SWchk,
                 T, Gamma, curbin, T1, T2, CTmin, CTmax, potE, STGin>>
  /\ UNCHANGED hostVars

\* dig() called once more on the table it left
DigAgain ==
  /\ phase = "dug"
  /\ Y2' = dig(Y2)
  /\ phase' = "redug"
  /\ UNCHANGED <<cfg, ntimestep, fatal, STG, f, df, Hist, Htot, PROH,
                 CountH, CountPH, Count, totCi, SWf, SWfold, SWchk,
                 T, Gamma, curbin, T1, T2, CTmin, CTmax, potE, STGin>>
  /\ UNCHANGED hostVars

DigNext == DigStep \/ DigAgain

DigSpec == DigInit /\ [][DigNext]_vars

\* ------------------------------------------------------------------------
\* Properties
\* ------------------------------------------------------------------------

\* Bin(U) = round(U / bin) - round(Emin / bin) of the documentation
SpecBin(pe) == Round(QDiv(pe, bin)) - BinMin

QMin(a, b) == IF QLt(b, a) THEN b ELSE a

QMax(a, b) == IF QLt(a, b) THEN b ELSE a

\* a step whose call of MAIN ran to its end
Accepts == fatal' = "none" /\ totCi' = totCi + 1

\* a step on which the stage 1 block digs
Digs == STG = 1 /\ ntimestep' % TSC1 = 0

\* C1: STG never decreases from one step to the next, whatever the f-scheme,
\* and a run in stage 4 stays in stage 4.
C1_StageMonotone == [][STG' >= STG /\ (STG = 4 => STG' = 4)]_vars

\* a step taken in stage 4 that ended in stage 4
C1_Witness == STGin = 4 /\ STG = 4 /\ fatal = "none"

\* C2: from a fresh init with T1 <= T2, after any accepted updates every bin
\* of the table lies in [T1, T2].
C2_Clamping ==
  (fatal = "none" /\ QLe(T1, T2)) =>
     \A i \in DOMAIN Y2 : QLe(T1, Y2[i]) /\ QLe(Y2[i], T2)

\* C3: in every stage and under every f-scheme, f after a step that ran to
\* its end is at most f before it.
C3_MonotoneF == [][fatal' = "none" => FLe(f', f)]_vars

\* f has been reduced in stage 2 under a scheme and the run is past stage 2
C3_Witness ==
  fatal = "none" /\ STG >= 3 /\ f_flag >= 2 /\ FLt(f, Exp(QMul(initf, QMul(QInt(2), bin))))

\* C4: f >= 1 in every state after init and after every step that does not
\* abort.
C4_FAtLeastOne == fatal = "none" => FLe(Exp(QInt(0)), f)

\* C5: a step ends in the out-of-range error exactly when U is outside
\* [Emin, Emax] or Bin(U) is outside [1, N-2].
C5_OutOfRangeExactly ==
  phase = "run" =>
     ((fatal \in {"pe_range", "index_range"})
        <=> (PotEOutOfRange(potE) \/ SpecBin(potE) \notin 1..(N - 2)))

\* the table C6 describes for a sample in bin i
C6_Updated(i) ==
  [k \in DOMAIN Y2 |->
     IF k = i + 1
     THEN QMin(QDiv(Y2[k], QSub(QInt(1), QMul(df, Y2[k]))), T2)
     ELSE IF k = i - 1
     THEN QMax(QDiv(Y2[k], QAdd(QInt(1), QMul(df, Y2[k]))), T1)
     ELSE Y2[k]]

\* C6: an accepted sample in bin i sets Y2[i+1] to min(Y2[i+1]/(1 - df*Y2[i+1]), T2)
\* and Y2[i-1] to max(Y2[i-1]/(1 + df*Y2[i-1]), T1) and leaves every other bin
\* as it was (before the dig of the same step, if there is one); bin i read
\* as Bin(U) or as the index curbin the code computes.
C6_NeighbourUpdate ==
  [][Accepts =>
       \E i \in {SpecBin(potE'), curbin'} :
          /\ i - 1 \in DOMAIN Y2
          /\ i + 1 \in DOMAIN Y2
          /\ Y2' = IF Digs THEN dig(C6_Updated(i)) ELSE C6_Updated(i)]_vars

\* C7: an accepted step adds exactly 1 to Htot, and to Hist unless the step
\* resets the window, in the single bin Bin(U), and the table keeps that
\* bin's value when the step does not dig.
C7_RecordBin ==
  [][Accepts =>
       /\ SpecBin(potE') \in DOMAIN Htot
       /\ Htot' = [Htot EXCEPT ![SpecBin(potE')] = @ + 1]
       /\ (CountH' = CountH + 1 =>
             Hist' = [Hist EXCEPT ![SpecBin(potE')] = @ + 1])
       /\ (~Digs => Y2'[SpecBin(potE')] = Y2[SpecBin(potE')])]_vars

\* C8: a stage 1 step that digs ends in stage 2 exactly when Y2[0] equals T1
\* after the dig; the promoting step leaves Hist all zero and CountH = 0, and
\* a dig that does not promote leaves STG = 1 and Hist with only the sample
\* of the step added.
C8_DigPromotion ==
  [][(Accepts /\ Digs) =>
       /\ (STG' = 2) <=> QEq(Y2'[0], T1)
       /\ STG' = 2 => (CountH' = 0 /\ \A i \in DOMAIN Hist' : Hist'[i] = 0)
       /\ STG' # 2 =>
            /\ STG' = 1
            /\ CountH' = CountH + 1
            /\ Hist' = [Hist EXCEPT ![curbin'] = @ + 1]]_vars

\* a step that began in stage 1 and was promoted with an emptied window
C8_Witness ==
  STGin = 1 /\ STG = 2 /\ fatal = "none" /\ CountH = 0 /\ QEq(Y2[0], T1)

\* C9 as stated: in stage 1, on step 0 and on every step that is not a
\* multiple of TSC1 the step leaves STG = 1 and the table as the neighbour
\* update made it.
C9_DigOnlyAfterStepZero ==
  [][(Accepts /\ STG = 1 /\ (ntimestep' = 0 \/ ntimestep' % TSC1 # 0)) =>
       /\ STG' = 1
       /\ Y2' = YvalTable(Y2, curbin', df, T1, T2)]_vars

\* C9 amended: in stage 1, dig() and TCHK run exactly on the steps with
\* step mod TSC1 = 0, step 0 (the call setup makes) included; on every other
\* step the stage 1 block changes neither the table nor STG.
C9_DigEveryTSC1 ==
  [][(Accepts /\ STG = 1) =>
       IF ntimestep' % TSC1 = 0
       THEN /\ Y2' = dig(YvalTable(Y2, curbin', df, T1, T2))
            /\ (STG' = 2) <=> QEq(Y2'[0], T1)
            /\ STG' \in {1, 2}
       ELSE /\ Y2' = YvalTable(Y2, curbin', df, T1, T2)
            /\ STG' = 1]_vars

\* the call setup makes at step 0 dug: the lowered bin was copied to bin 0
C9_Witness ==
  /\ phase = "run" /\ ntimestep = 0 /\ fatal = "none"
  /\ curbin >= 3
  /\ QLt(Y2[0], T2)
  /\ QEq(Y2[0], Y2[curbin - 1])

\* the first and the last index at which a table attains its minimum
IsMin(Y, i) == \A k \in DOMAIN Y : QLe(Y[i], Y[k])

FirstMin(Y) == CHOOSE i \in DOMAIN Y : IsMin(Y, i) /\ \A k \in 0..(i - 1) : ~IsMin(Y, k)

LastMin(Y) == CHOOSE i \in DOMAIN Y : IsMin(Y, i) /\ \A k \in (i + 1)..(N - 1) : ~IsMin(Y, k)

DugAt(Y, m) == [i \in DOMAIN Y |-> IF i < m THEN Y[m] ELSE Y[i]]

\* C10 as stated: dig() fills the bins below the smallest index at which the
\* table attains its minimum and leaves the others, for every table.
C10_DigSmallest == [][phase = "dig" => Y2' = DugAt(Y2, FirstMin(Y2))]_vars

\* C10 amended: dig() takes i* = the largest index at which the table attains
\* its minimum, sets Y2[i] to Y2[i*] for every i < i* and leaves Y2[i]
\* unchanged for every i >= i*, for every table.
C10_DigLargest == [][phase = "dig" => Y2' = DugAt(Y2, LastMin(Y2))]_vars

\* a dug table whose bins 0..3 hold the minimum and whose last bin is above
C10_Witness ==
  phase = "dug" /\ QEq(Y2[0], Y2[N - 2]) /\ QEq(Y2[0], Y2[1]) /\ QLt(Y2[0], Y2[N - 1])

\* a step of stage 2 that runs the stage 2 block
Maintains2 == Accepts /\ STG = 2 /\ ntimestep' % TSC2 = 0

\* the table and the window as HCHK finds them in the step: after the
\* neighbour update and the record of the sample
SeenY == YvalTable(Y2, curbin', df, T1, T2)

SeenHist == [Hist EXCEPT ![curbin'] = @ + 1]

\* the bins whose temperature lies strictly between CTmin and CTmax
Qualifying == {i \in DOMAIN Y2 : QLt(CTmin, SeenY[i]) /\ QLt(SeenY[i], CTmax)}

\* |Hist[i] - mean| / mean <= 1/5 on every qualifying bin, for the mean
\* SumOver / Cardinality of the qualifying bins, without the division
FlatOn(B) ==
  /\ B # {}
  /\ \A i \in B :
       5 * AbsI(Cardinality(B) * SeenHist[i] - SumOver(SeenHist, B))
          <= SumOver(SeenHist, B)

\* C11: in stage 2 with hchk, at a step with step mod TSC2 = 0: when every
\* qualifying bin is within HCKtol of the mean, f becomes sqrt(f), df is
\* recomputed, SWchk is 1 and the window is reset; when a qualifying bin is
\* off by more, or no bin qualifies, f is unchanged and (unless the step
\* promotes to stage 3) Hist is not reset and SWchk grows by 1.  Steps in
\* which the qualifying bins are all empty, so that the ratio has no value,
\* are left out.
C11_HchkReduction ==
  [][(Maintains2 /\ f_flag = 1
        /\ (Qualifying = {} \/ SumOver(SeenHist, Qualifying) > 0)) =>
       IF FlatOn(Qualifying)
       THEN /\ f' = Sqrt(f)
            /\ df' = DfOf(f')
            /\ SWchk' = 1
            /\ CountH' = 0
            /\ \A i \in DOMAIN Hist' : Hist'[i] = 0
       ELSE /\ f' = f
            /\ STG' = 2 => (Hist' = SeenHist /\ SWchk' = SWchk + 1)]_vars

C13_Stage3To4 ==
  [][(Accepts /\ STG = 3) =>
       IF ntimestep' % TSC2 = 0
       THEN STG' \in {3, 4} /\ ((STG' = 4) <=> FLe(f', finFval))
       ELSE STG' = 3]_vars

\* a step promoted from stage 3 to stage 4 in a run whose TSC2 skips steps
C13_Witness ==
  STGin = 3 /\ STG = 4 /\ fatal = "none" /\ TSC2 > 1 /\ ntimestep > 0

\* a step taken in stage 3 that runs the stage >= 3 block
Maintains3 == Accepts /\ STG = 3 /\ ntimestep' % TSC2 = 0

\* C14 as documented: in stage 3, at a step with step mod TSC2 = 0, sqrt
\* takes f to sqrt(f), constant_f takes f to f - 0.1 f when f > 1.2 and to
\* sqrt(f) otherwise, and constant_df takes df to 0.99 df with
\* f = exp(2 bin df), as the schemes do in stage 2.
C14_SameSchemeAsStage2 ==
  [][Maintains3 =>
       /\ f_flag = 2 => f' = Sqrt(f)
       /\ f_flag = 3 =>
            f' = IF FAboveConst(f) THEN FReduceConst(f) ELSE Sqrt(f)
       /\ f_flag = 4 =>
            /\ df' = QMul(df, Q(99, 100))
            /\ f' = Exp(QMul(QMul(QInt(2), bin), df'))]_vars

\* C14 as the code has it: in stage 3, at every step with step mod TSC2 = 0
\* (step 0 included), sqrt, constant_f and constant_df all take f to sqrt(f),
\* hchk takes f to sqrt(f) exactly when HCHK has just raised SWf, none leaves
\* f, and df is ln(f) / (2 bin) afterwards.
C14_Stage3Sqrt ==
  [][Maintains3 =>
       /\ f_flag = 0 => f' = f
       /\ f_flag = 1 => f' = IF SWf' # SWf THEN Sqrt(f) ELSE f
       /\ f_flag > 1 => f' = Sqrt(f)
       /\ df' = DfOf(f')]_vars

\* constant_df in stage 3 has halved ln f = 1/40
C14_Witness ==
  STGin = 3 /\ fatal = "none" /\ f_flag = 4 /\ ntimestep % TSC2 = 0
    /\ f = Exp(Q(1, 80)) /\ totCi = 1

RECURSIVE CeilLog2(_, _)
CeilLog2(x, t) == IF QLe(x, t) THEN 0 ELSE 1 + CeilLog2(QDiv(x, QInt(2)), t)

RECURSIVE Pow2(_)
Pow2(k) == IF k = 0 THEN 1 ELSE 2 * Pow2(k - 1)

\* ln f0 of a run that has halved ln f at every step since step 0
LnF0 == QMul(Log(f), QInt(Pow2(ntimestep)))

\* C16: with sqrt, from stage 2 with f0 > pfinFval > finFval > 1 and TSC2 = 1:
\* the run is in stage 2 while fewer than ceil(log2(ln f0 / ln pfinFval))
\* halvings are done and enters stage 3 with exactly that many; every step
\* after step 0 in stages 2 and 3 halves ln f; stage 4 is entered exactly
\* when a halving brings f <= finFval; the f-check never ends the run; and
\* unless a sample ends the run, STG becomes 4.
C16_ScheduleReachesProduction ==
  /\ [](phase = "run" /\ fatal = "none" =>
          /\ STG = 2 => ntimestep < CeilLog2(LnF0, Log(pfinFval))
          /\ (STGin = 2 /\ STG = 3) => ntimestep = CeilLog2(LnF0, Log(pfinFval)))
  /\ [][(Accepts /\ STG \in {2, 3} /\ ntimestep' # 0) =>
          /\ f' = Sqrt(f)
          /\ STG = 3 => ((STG' = 4) <=> FLe(f', finFval))]_vars
  /\ [](fatal # "f_unity")
  /\ <>(STG = 4 \/ fatal # "none")

\* the run went from stage 2 through stage 3 into stage 4
C16_Witness ==
  STGin = 3 /\ STG = 4 /\ fatal = "none" /\ f_flag = 2 /\ ntimestep >= 4
    /\ FLe(f, finFval) /\ FLt(Exp(QInt(0)), f)

\* MAIN got past Yval() into its stage blocks
ReachesStages == fatal = "none" /\ totCi' = totCi + 1 /\ fatal' \in {"none", "f_unity"}

\* C17: with f_style none a stage 2 step with step mod TSC2 = 0 only resets
\* the window: Hist is all zero and CountH is 0 afterwards, f, df and STG
\* keep their values and the run is not ended, whatever initf the
\* constructor accepted.
C17_NoneOnlyResets ==
  [][(ReachesStages /\ STG = 2 /\ f_flag = 0 /\ ntimestep' % TSC2 = 0) =>
       /\ fatal' = "none"
       /\ f' = f /\ df' = df /\ STG' = 2
       /\ Hist' = ResetPH(Hist) /\ CountH' = 0]_vars

\* C18: with f_style constant_df a stage 2 step with step mod TSC2 = 0 and
\* step > 0 takes df to df (1 - 0.01) and f to exp(2 bin df) for the new df,
\* and leaves the window as the record of the step's sample left it: Hist
\* with the sampled bin counted, CountH one higher.
C18_ConstantDfStep ==
  [][(ReachesStages /\ STG = 2 /\ f_flag = 4 /\ ntimestep' % TSC2 = 0
        /\ ntimestep' # 0) =>
       /\ df' = QMul(df, QSub(QInt(1), Q(1, 100)))
       /\ f' = Exp(QMul(QMul(QInt(2), bin), df'))
       /\ Hist' = SeenHist /\ CountH' = CountH + 1]_vars

\* constant_df has reduced f in stage 2 and the window has gone on counting
C18_Witness ==
  STGin = 2 /\ f_flag = 4 /\ fatal = "none" /\ ntimestep > 0 /\ CountH >= 2
    /\ FLt(f, Exp(QMul(initf, QMul(QInt(2), bin))))

\* the window is empty
WindowReset == Hist = ResetPH(Hist) /\ CountH = 0

C20_DfConsistent == QEq(df, DfOf(f))

\* constant_df has reduced df, set f from it, and the step entered stage 3
C20_Witness ==
  STGin = 2 /\ STG = 3 /\ f_flag = 4 /\ fatal = "none" /\ ntimestep > 0
    /\ ntimestep % TSC2 = 0 /\ QEq(df, DfOf(f))

\* e = U - round(U / bin) * bin of the documentation
C21_Offset(pe) == QSub(pe, QMul(QInt(Round(QDiv(pe, bin))), bin))

\* T_local of C21 on the table Y for the bin i and the offset e; the bins it
\* reads must be bins of the table
C21_TLocalIs(t, Y, i, e) ==
  IF QLt(QInt(0), e)
  THEN /\ i + 1 \in DOMAIN Y
       /\ t = QAdd(Y[i], QDiv(QMul(QSub(Y[i + 1], Y[i]), e), bin))
  ELSE IF QLt(e, QInt(0))
  THEN /\ i - 1 \in DOMAIN Y
       /\ t = QAdd(Y[i], QDiv(QMul(QSub(Y[i], Y[i - 1]), e), bin))
  ELSE t = Y[i]

C22_CumulativeHistograms ==
  /\ [][\A i \in DOMAIN Htot : Htot'[i] >= Htot[i] /\ PROH'[i] >= PROH[i]]_vars
  /\ [][PROH' # PROH => STG >= 3]_vars
  /\ [](STG \in {1, 2} => PROH = ResetPH(PROH))

\* a production step has reset the window and the cumulative histograms
\* still hold the samples of the run
C22_Witness ==
  STGin >= 3 /\ fatal = "none" /\ Hist = ResetPH(Hist)
    /\ SumOver(PROH, DOMAIN PROH) >= 2
    /\ SumOver(Htot, DOMAIN Htot) > SumOver(PROH, DOMAIN PROH)

\* C23: CountPH is 0 after the step that promotes to stage 3, every later
\* step that begins with STG >= 3 adds exactly 1 to it, and in a fresh run
\* CountPH is the sum of PROH over all bins after every step that ran to
\* its end.
C23_CountPHSteps ==
  /\ [][(Accepts /\ STG < 3 /\ STG' = 3) => CountPH' = 0]_vars
  /\ [][(Accepts /\ STG >= 3) => CountPH' = CountPH + 1]_vars
  /\ [](fatal = "none" => CountPH = SumOver(PROH, DOMAIN PROH))

\* a new process reads the file a run wrote in the end_of_step() of its last
\* timestep
ReloadsLatest ==
  pc = "exited" /\ pc' = "reloaded" /\ fatal = "none"
    /\ ntimestep >= 1 /\ ntimestep % RSTFRQ = 0

\* C24: the engine re-initialised with restart=yes from the file written in
\* the state the run ended in has the same Y2, Htot, PROH, f, STG and
\* counters (CountH apart) as the engine that wrote the file, and Hist all
\* zero.
C24_RestartRoundTrip ==
  [][ReloadsLatest =>
       /\ fatal' = "none"
       /\ Y2' = Y2 /\ Htot' = Htot /\ PROH' = PROH /\ f' = f /\ STG' = STG
       /\ Count' = Count /\ totCi' = totCi /\ CountPH' = CountPH
       /\ SWf' = SWf /\ SWfold' = SWfold /\ SWchk' = SWchk
       /\ Hist' = ResetPH(Hist)]_vars

\* C25: init() with restart=yes on a file that holds fewer than 3N + 13
\* numeric values ends in the restart error.
C25_ShortFileRefused ==
  [][(pc' = "reloaded" /\ Len(Extracted(orest)) < nsize) =>
       fatal' = "restart_invalid"]_vars

\* a run whose end_of_step() has rewritten the restart file at least once
Rewritten ==
  pc \in {"host", "crashed"} /\ fatal = "none" /\ ntimestep >= RSTFRQ

\* C26: once the restart file has been rewritten, the file on disk is at
\* every instant, a crash included, a whole blob of 3N + 13 values, never
\* empty and never a part of one.
C26_AtomicRewrite ==
  Rewritten => Len(orest) = nsize /\ \A k \in 1..nsize : orest[k].num

\* rank r multiplies its forces by Gamma in this step of the model
Scales(r) == mpi # <<>> /\ mpi.at[r] = "scale" /\ mpi'.at[r] = "idle"

\* C27: a rank scales its forces only after rank 0 has computed and sent
\* the Gamma of the step, and with that value; after a step every rank
\* has used the same Gamma.
C27_SameGamma ==
  /\ [][\A r \in Ranks : Scales(r) =>
          /\ mpi.at[0] \in {"scale", "idle"}
          /\ mpi'.used[r] = Gamma]_vars
  /\ []((mpi # <<>> /\ \A r \in Ranks : mpi.at[r] = "idle") =>
          mpi.used[0] = mpi.used[1])

\* after a restart the ranks hold different tables: both have scaled, the
\* other rank with a Gamma that is not the one its own MAIN computed
C27_Witness ==
  /\ mpi # <<>>
  /\ \A r \in Ranks : mpi.at[r] = "idle"
  /\ phase = "run"
  /\ ntimestep >= 1
  /\ mpi.used[1] = Gamma
  /\ mpi.peer.fatal = "none"
  /\ QDiv(QInt(1), mpi.peer.T) # Gamma

\* C28: dig() applied to the table dig() has just left changes nothing, for
\* every table: two calls in a row leave what one call leaves.
C28_DigIdempotent == [][phase = "dug" => Y2' = Y2]_vars

\* dig() ran twice on a table whose first call had bins to fill
C28_Witness ==
  /\ phase = "redug"
  /\ QLt(Y2[0], Y2[N - 1])
  /\ \A i \in 0..(N - 2) : QEq(Y2[i], Y2[0])

\* C29: right after a dig() of stage 1, every bin below a position at which
\* the table attains its minimum holds the minimum.
C29_PrefixAtMinimum ==
  [][(Accepts /\ Digs) =>
       \A j \in DOMAIN Y2 : IsMin(Y2', j) =>
         \A i \in 0..(j - 1) : QEq(Y2'[i], Y2'[j])]_vars

\* a step of stage 1 after setup whose dig() filled bins 0..curbin-2 with
\* the value of the lowered bin
C29_Witness ==
  /\ phase = "run" /\ ntimestep >= 1 /\ fatal = "none" /\ STGin = 1
  /\ curbin >= 3
  /\ QLt(Y2[0], T2)
  /\ IsMin(Y2, curbin - 1)
  /\ \A i \in 0..(curbin - 1) : QEq(Y2[i], Y2[0])
  /\ QLt(Y2[0], Y2[N - 1])

\* an exchange attempt is made in this step of the model
Attempts == rxc # <<>> /\ rxc.me = <<>> /\ rxc'.me # <<>>

C31_IndicesInTable ==
  [][Accepts => \A k \in {curbin' - 1, curbin', curbin' + 1} : k \in 0..(N - 1)]_vars

\* C32: after init, fresh or from the restart file, and after every step,
\* CountH is the sum of Hist over all bins.
C32_CountHIsWindowSum == CountH = SumOver(Hist, DOMAIN Hist)

\* the values one stage 2 reduction can give f
C33_OneReduction ==
  {f, Sqrt(f), FReduceConst(f),
   Exp(QMul(QMul(QInt(2), bin), QSub(df, QMul(df, Q(1, 100)))))}

\* C33: an accepted step raises STG by at most 1; the step that promotes 1
\* to 2 leaves f, df and the flatness switches as they were (no stage 2
\* maintenance), and the step that promotes 2 to 3 records nothing in PROH,
\* leaves CountPH = 0 and f at most one stage 2 reduction below its value
\* (no stage 3 reduction, no promotion to 4).
C33_OneStagePerStep ==
  /\ [][Accepts => STG' <= STG + 1]_vars
  /\ [][(Accepts /\ STG = 1 /\ STG' = 2) =>
          f' = f /\ df' = df /\ SWf' = SWf /\ SWfold' = SWfold /\ SWchk' = SWchk]_vars
  /\ [][(Accepts /\ STG = 2 /\ STG' = 3) =>
          PROH' = PROH /\ CountPH' = 0 /\ f' \in C33_OneReduction]_vars

\* a timestep after setup on which a run under the sqrt scheme went from
\* stage 1 to stage 2 while the stage 2 block was due (step mod TSC2 = 0)
C33_Witness ==
  /\ STGin = 1 /\ STG = 2 /\ fatal = "none"
  /\ ntimestep >= 1 /\ ntimestep % TSC2 = 0
  /\ f_flag = 2

\* every bin of the table Y lies in [T1, T2], with 0 < T1
C34_InBand(Y) ==
  QLt(QInt(0), T1) /\ \A k \in DOMAIN Y : QLe(T1, Y[k]) /\ QLe(Y[k], T2)

\* t lies between a and b
C34_Between(t, a, b) == QLe(QMin(a, b), t) /\ QLe(t, QMax(a, b))

\* t lies between Y[i] and one of its neighbours in the table
C34_Interpolates(t, Y, i) ==
  \E k \in {i - 1, i + 1} \cap DOMAIN Y : C34_Between(t, Y[i], Y[k])

\* C34: after an accepted step T lies between the value of the sampled bin
\* and the value of one of its neighbours in the table the interpolation
\* used, and when that table lies in [T1, T2] with 0 < T1, Gamma is finite
\* with 1/T2 <= Gamma <= 1/T1.
C34_GammaBounded ==
  [][Accepts =>
       /\ C34_Interpolates(T', SeenY, curbin')
       /\ C34_InBand(SeenY) =>
            /\ IsFinite(Gamma')
            /\ QLe(QDiv(QInt(1), T2), Gamma')
            /\ QLe(Gamma', QDiv(QInt(1), T1))]_vars

\* C35: after init and after every step the ranks of a walker hold the same
\* STG, f, df and table, and no rank goes on past MAIN in a step in which
\* another rank has ended in a fatal error.
C35_RanksAgree ==
  mpi # <<>> =>
    /\ (\A r \in Ranks : mpi.at[r] = "idle") =>
         /\ mpi.peer.STG = STG
         /\ mpi.peer.f = f
         /\ mpi.peer.df = df
         /\ mpi.peer.Y2 = Y2
    /\ \A r, q \in Ranks : mpi.at[r] = "dead" => mpi.at[q] \in {"main", "dead"}

====
